---- MODULE Spec2Model ----
(***************************************************************************)
(* Model of src/actions.py: the two actions get_ability_score_models and   *)
(* get_background_models of the D&D 5e API adapter.                        *)
(*                                                                         *)
(* Every invocation of an action is a process with its own local           *)
(* variables (the result dictionary, the loop position, the exception in   *)
(* flight, the scoped ApiClient).  The generated client (dnd5epy) is the   *)
(* environment: an endpoint call answers with a response object, raises    *)
(* ApiException, or raises some other exception (a transport error that    *)
(* the client does not wrap); a method that the client does not define     *)
(* raises AttributeError at the attribute lookup.                          *)
(***************************************************************************)
EXTENDS Naturals, Sequences, FiniteSets

(***************************************************************************)
(* Bounds of the model.                                                    *)
(***************************************************************************)
\* number of invocations of the actions that are followed
NumCalls == 2
\* longest results list the backgrounds list endpoint answers with
MaxResults == 2

Calls == 1..NumCalls

(***************************************************************************)
(* Program constants and pure helpers.                                     *)
(***************************************************************************)
\* a list that lost its last identifier
NamesWithoutCha == <<"str", "dex", "con", "int", "wis">>

\* actions.py:13
ABILITY_SCORE_NAMES == <<"str", "dex", "con", "int", "wis", "cha">>

AbilityAction == "get_ability_score_models"
BackgroundAction == "get_background_models"
Actions == {AbilityAction, BackgroundAction}

\* the name under which the attempts of the list call of line 231 are counted
BackgroundsEndpoint == "backgrounds"

Range(s) == {s[k] : k \in 1..Len(s)}

Endpoints == Range(ABILITY_SCORE_NAMES) \cup {"str", "dex", "con", "int", "wis", "cha"}
                \cup {BackgroundsEndpoint}

\* index fields of the summaries the list endpoint may answer with
BackgroundIndexes == {"acolyte", "sage"}

\* {} of lines 110 and 222
EmptyDict == <<>>

\* d[k] = v of lines 120 and 234: inserts, or overwrites the entry under k
SetItem(d, k, v) == [x \in (DOMAIN d) \cup {k} |-> IF x = k THEN v ELSE d[x]]

\* The response object of api_ability_scores_index_get(name) in invocation
\* self: a typed model object; its attributes are positional here.
AbilityResponse(name, self) == <<"AbilityScore", name, self>>

\* the display name the API gives to the background of an index
DisplayName(index) == IF index = "acolyte" THEN "Acolyte" ELSE "Sage"

\* The k-th summary object of a results list whose index fields are ixs:
\* its index, its name, its place in the list and the call that produced it.
Summary(ixs, k, self) == <<"APIReference", ixs[k], DisplayName(ixs[k]), k, self>>

\* The response object of the list call of line 231 in invocation self: its
\* results attribute holds one summary object per index field of ixs.
BackgroundsResponse(ixs, self) ==
    [kind |-> "list", results |-> [k \in 1..Len(ixs) |-> Summary(ixs, k, self)]]

\* api_response before the list call has answered: not bound
NoResponse == [kind |-> "unbound"]

\* to_dict() of the generated models: the object's attributes as a mapping
\* from attribute name to value.
to_dict(obj) ==
    IF obj[1] = "AbilityScore"
    THEN [kind |-> "ability-score", index |-> obj[2], call |-> obj[3]]
    ELSE [kind |-> "background", index |-> obj[2], name |-> obj[3],
          item |-> obj[4], call |-> obj[5]]

\* keying a summary by its name instead of its index
BackgroundKeyByName(background) == background[3]

\* background.index of line 233
BackgroundKey(background) == background[2]

\* The loop of lines 232-234 over the first n summaries of the results list.
RECURSIVE StoreBackgrounds(_, _, _)
StoreBackgrounds(d, results, n) ==
    IF n = 0 THEN d
    ELSE SetItem(StoreBackgrounds(d, results, n - 1),
                 BackgroundKey(results[n]),
                 to_dict(results[n]))

\* results lists of at most n index fields
RECURSIVE ListsUpTo(_)
ListsUpTo(n) ==
    IF n = 0 THEN {<<>>}
    ELSE ListsUpTo(n - 1) \cup
         {Append(s, x) : s \in {t \in ListsUpTo(n - 1) : Len(t) = n - 1},
                         x \in BackgroundIndexes}

ResultLists == ListsUpTo(MaxResults)

\* an except clause that catches nothing
CatchesNothing(exc) == FALSE

\* an except clause that catches every exception
CatchesEverything(exc) == TRUE

\* "except ApiException" of lines 121 and 235
Catches(exc) == exc = "ApiException"

\* a try statement inside the loop body: the loop goes on with the next name
ContinueAfterExcept(op, k) ==
    IF op = AbilityAction /\ k < Len(ABILITY_SCORE_NAMES)
    THEN [pc |-> "fetch", idx |-> k + 1]
    ELSE [pc |-> "exit", idx |-> k]

\* Where control goes after the except clause (lines 121-125, 235-238): the
\* try statement encloses the whole loop, so control leaves the loop and
\* reaches the end of the with block.  k is the position of the failed call.
AfterExcept(op, k) == [pc |-> "exit", idx |-> k]

\* a client that is never opened
ApiClientEnterNoOpen(c) == c

\* a scoped client whose exit does not close the connection
ApiClientExitNoClose(c) == c

\* ApiClient.__enter__ of the with statement (lines 112, 224)
ApiClientEnter(c) == [c EXCEPT !.opens = @ + 1]

\* ApiClient.__exit__ of the with statement (lines 112, 224): close()
ApiClientExit(c) == [c EXCEPT !.closes = @ + 1]

IsOpen(c) == c.opens > c.closes

VARIABLES
    methodExists,   \* does the client define api_backgrounds_get_not_real_method
    op,             \* op[c]: the action invocation c runs
    pc,             \* pc[c]: the position of invocation c
    idx,            \* idx[c]: position of the loop in ABILITY_SCORE_NAMES
    result,         \* result[c]: ability_score_descriptions / background_descriptions
    response,       \* response[c]: api_response, or NoResponse before the first answer
    inflight,       \* inflight[c]: the exception being raised, or "none"
    conn,           \* conn[c]: the scoped ApiClient of the invocation
    attempts,       \* attempts[c][e]: how often endpoint e was called
    failed,         \* failed[c]: the endpoints whose call raised ApiException
    logged          \* logged[c]: messages printed by the except clause

vars == <<methodExists, op, pc, idx, result, response, inflight, conn, attempts, failed, logged>>

\* a dictionary carried over from the other invocations
LeakedDict(res, self) ==
    LET others == {c \in Calls : c # self /\ DOMAIN res[c] # {}}
    IN IF others = {} THEN EmptyDict ELSE res[CHOOSE c \in others : TRUE]

\* The local dictionary created at lines 110 and 222.
FreshDict(res, self) == EmptyDict

Init ==
    /\ methodExists \in BOOLEAN
    /\ op = [c \in Calls |-> "none"]
    /\ pc = [c \in Calls |-> "idle"]
    /\ idx = [c \in Calls |-> 0]
    /\ result = [c \in Calls |-> EmptyDict]
    /\ response = [c \in Calls |-> NoResponse]
    /\ inflight = [c \in Calls |-> "none"]
    /\ conn = [c \in Calls |-> [opens |-> 0, closes |-> 0]]
    /\ attempts = [c \in Calls |-> [e \in Endpoints |-> 0]]
    /\ failed = [c \in Calls |-> {}]
    /\ logged = [c \in Calls |-> 0]

\* The framework invokes an action (lines 17/110, 131/222).  Invocations are
\* interchangeable, so they are numbered in the order in which they begin.
Begin(self) ==
    /\ pc[self] = "idle"
    /\ \A c \in Calls : c < self => pc[c] # "idle"
    /\ \E a \in Actions : op' = [op EXCEPT ![self] = a]
    /\ result' = [result EXCEPT ![self] = FreshDict(result, self)]
    /\ pc' = [pc EXCEPT ![self] = "enter"]
    /\ UNCHANGED <<methodExists, idx, response, inflight, conn, attempts, failed, logged>>

\* with dnd5epy.ApiClient(configuration) as api_client (lines 112-114, 224-226)
EnterClient(self) ==
    /\ pc[self] = "enter"
    /\ conn' = [conn EXCEPT ![self] = ApiClientEnter(@)]
    /\ idx' = [idx EXCEPT ![self] = 1]
    /\ pc' = [pc EXCEPT ![self] = "fetch"]
    /\ UNCHANGED <<methodExists, op, result, response, inflight, attempts, failed, logged>>

\* An exception exc leaves the call at the loop position: to the except
\* clause when it matches, to the end of the with block otherwise.
Raise(self, exc, endpoint) ==
    /\ inflight' = [inflight EXCEPT ![self] = exc]
    /\ failed' = [failed EXCEPT ![self] =
                    IF exc = "ApiException" THEN @ \cup {endpoint} ELSE @]
    /\ pc' = [pc EXCEPT ![self] = IF Catches(exc) THEN "except" ELSE "exit"]
    /\ UNCHANGED <<idx, result, response>>

\* One iteration of the loop of lines 118-120.
FetchAbility(self) ==
    /\ pc[self] = "fetch"
    /\ op[self] = AbilityAction
    /\ idx[self] <= Len(ABILITY_SCORE_NAMES)
    /\ LET name == ABILITY_SCORE_NAMES[idx[self]] IN
        /\ attempts' = [attempts EXCEPT ![self][name] = @ + 1]
        /\ \/ /\ response' = [response EXCEPT ![self] = AbilityResponse(name, self)]
              /\ result' = [result EXCEPT ![self] =
                              SetItem(@, name, to_dict(response'[self]))]
              /\ idx' = [idx EXCEPT ![self] = @ + 1]
              /\ pc' = [pc EXCEPT ![self] =
                          IF idx[self] + 1 > Len(ABILITY_SCORE_NAMES)
                          THEN "exit" ELSE "fetch"]
              /\ UNCHANGED <<inflight, failed>>
           \/ Raise(self, "ApiException", name)
           \/ Raise(self, "OtherError", name)
    /\ UNCHANGED <<methodExists, op, conn, logged>>

\* Lines 231-234: the list call and the loop over its results.
FetchBackgrounds(self) ==
    /\ pc[self] = "fetch"
    /\ op[self] = BackgroundAction
    /\ attempts' = [attempts EXCEPT ![self][BackgroundsEndpoint] = @ + 1]
    /\ IF ~methodExists
       THEN Raise(self, "AttributeError", BackgroundsEndpoint)
       ELSE \/ \E ixs \in ResultLists :
                 /\ response' = [response EXCEPT ![self] =
                                   BackgroundsResponse(ixs, self)]
                 /\ result' = [result EXCEPT ![self] =
                                 StoreBackgrounds(@, response'[self].results,
                                                  Len(response'[self].results))]
                 /\ pc' = [pc EXCEPT ![self] = "exit"]
                 /\ UNCHANGED <<idx, inflight, failed>>
            \/ Raise(self, "ApiException", BackgroundsEndpoint)
            \/ Raise(self, "OtherError", BackgroundsEndpoint)
    /\ UNCHANGED <<methodExists, op, conn, logged>>

\* The except clause (lines 121-125, 235-238): print, and go on after the
\* try statement.
HandleApiException(self) ==
    /\ pc[self] = "except"
    /\ logged' = [logged EXCEPT ![self] = @ + 1]
    /\ inflight' = [inflight EXCEPT ![self] = "none"]
    /\ pc' = [pc EXCEPT ![self] = AfterExcept(op[self], idx[self]).pc]
    /\ idx' = [idx EXCEPT ![self] = AfterExcept(op[self], idx[self]).idx]
    /\ UNCHANGED <<methodExists, op, result, response, conn, attempts, failed>>

\* The end of the with block (lines 112-125, 224-238): the client is
\* closed; an exception in flight goes on to the caller.
ExitClient(self) ==
    /\ pc[self] = "exit"
    /\ conn' = [conn EXCEPT ![self] = ApiClientExit(@)]
    /\ pc' = [pc EXCEPT ![self] =
                IF inflight[self] = "none" THEN "return" ELSE "propagated"]
    /\ UNCHANGED <<methodExists, op, idx, result, response, inflight, attempts, failed, logged>>

\* return ability_score_descriptions / background_descriptions (lines 127, 240)
Return(self) ==
    /\ pc[self] = "return"
    /\ pc' = [pc EXCEPT ![self] = "returned"]
    /\ UNCHANGED <<methodExists, op, idx, result, response, inflight, conn, attempts, failed, logged>>

Next ==
    \E self \in Calls :
        \/ Begin(self)
        \/ EnterClient(self)
        \/ FetchAbility(self)
        \/ FetchBackgrounds(self)
        \/ HandleApiException(self)
        \/ ExitClient(self)
        \/ Return(self)

Spec == Init /\ [][Next]_vars

TypeOK ==
    /\ methodExists \in BOOLEAN
    /\ \A c \in Calls :
        /\ op[c] \in Actions \cup {"none"}
        /\ pc[c] \in {"idle", "enter", "fetch", "except", "exit", "return",
                      "returned", "propagated"}
        /\ inflight[c] \in {"none", "ApiException", "OtherError", "AttributeError"}
        /\ logged[c] \in Nat

(***************************************************************************)
(* Vocabulary of the properties.                                           *)
(***************************************************************************)
Keys(c) == DOMAIN result[c]
Ended(c) == pc[c] \in {"returned", "propagated"}
AllNames == {"str", "dex", "con", "int", "wis", "cha"}
NameList == <<"str", "dex", "con", "int", "wis", "cha">>
Prefix(k) == {NameList[j] : j \in 1..k}
Attempted(c) == {e \in Endpoints : attempts[c][e] > 0}
IsAbility(c) == op[c] = AbilityAction
IsBackground(c) == op[c] = BackgroundAction
Closed(c) == conn[c].opens = 1 /\ conn[c].closes = 1

(***************************************************************************)
(* C1                                                                      *)
(***************************************************************************)
\* C1 as stated: when get_ability_score_models has returned, only the
\* identifiers whose call raised ApiException are missing from the mapping.
C1_OnlyFailingOmitted ==
    \A c \in Calls :
        (IsAbility(c) /\ pc[c] = "returned") =>
            \A n \in AllNames : n \notin Keys(c) => n \in failed[c]

\* C1 amended: when a call of get_ability_score_models raised ApiException
\* and the action has returned, exactly one identifier failed, the exception
\* was logged once, and the keys are exactly the identifiers before the
\* failing one: the failing identifier and all later ones are omitted.
C1_FirstFailureEndsLoop ==
    \A c \in Calls :
        (IsAbility(c) /\ pc[c] = "returned" /\ failed[c] # {}) =>
            \E k \in 1..6 :
                /\ failed[c] = {NameList[k]}
                /\ logged[c] = 1
                /\ Keys(c) = Prefix(k - 1)

C1_Witness ==
    \E c \in Calls :
        /\ IsAbility(c) /\ pc[c] = "returned"
        /\ failed[c] = {"con"}
        /\ Keys(c) = {"str", "dex"}

(***************************************************************************)
(* C2                                                                      *)
(***************************************************************************)
\* C2 as stated: with a client that does not define the invoked method,
\* every get_background_models invocation that has ended has returned an
\* empty mapping (no exception reached the caller).
C2_ReturnsEmptyNeverRaises ==
    \A c \in Calls :
        (~methodExists /\ IsBackground(c) /\ Ended(c)) =>
            (pc[c] = "returned" /\ result[c] = EmptyDict)

\* C2 amended: with a client that does not define the invoked method,
\* get_background_models never returns: the AttributeError is not caught,
\* nothing is logged, the mapping stays empty, and the exception reaches the
\* caller after the connection has been closed.
C2_AttributeErrorEscapes ==
    \A c \in Calls :
        (~methodExists /\ IsBackground(c)) =>
            /\ result[c] = EmptyDict
            /\ logged[c] = 0
            /\ pc[c] \notin {"except", "return", "returned"}
            /\ pc[c] \in {"exit", "propagated"} => inflight[c] = "AttributeError"
            /\ pc[c] = "propagated" => Closed(c)

C2_Witness ==
    \E c \in Calls :
        /\ ~methodExists /\ IsBackground(c)
        /\ pc[c] = "propagated"
        /\ inflight[c] = "AttributeError"

(***************************************************************************)
(* C3                                                                      *)
(***************************************************************************)
\* C3: once an ability-score call has raised ApiException, the failing
\* identifier is not a key of the mapping, and the invocation is on the way
\* to its normal return: the exception is handled and never reaches the
\* caller.
C3_FailingOmittedNoEscape ==
    \A c \in Calls :
        (IsAbility(c) /\ failed[c] # {}) =>
            /\ failed[c] \cap Keys(c) = {}
            /\ pc[c] \in {"except", "exit", "return", "returned"}
            /\ pc[c] # "except" => inflight[c] = "none"

C3_Witness ==
    \E c \in Calls :
        /\ IsAbility(c) /\ pc[c] = "returned"
        /\ failed[c] = {"wis"}
        /\ "wis" \notin Keys(c)

(***************************************************************************)
(* C4                                                                      *)
(***************************************************************************)
\* C4: when get_ability_score_models has returned and no call failed, the
\* keys are exactly str, dex, con, int, wis, cha, and the value under each
\* is the to_dict conversion of the response for that identifier.
C4_AllSixWhenAllSucceed ==
    \A c \in Calls :
        (IsAbility(c) /\ pc[c] = "returned" /\ failed[c] = {}) =>
            /\ Keys(c) = AllNames
            /\ Cardinality(Keys(c)) = 6
            /\ \A n \in Keys(c) : result[c][n] = to_dict(AbilityResponse(n, c))

C4_Witness ==
    \E c \in Calls :
        /\ IsAbility(c) /\ pc[c] = "returned" /\ failed[c] = {}
        /\ \A n \in AllNames : attempts[c][n] = 1
        /\ Keys(c) = AllNames

(***************************************************************************)
(* C5                                                                      *)
(***************************************************************************)
\* C5: an invocation opens at most one connection and closes only what it
\* opened; when control has left the with block or the action (normal
\* return, return after a caught ApiException, uncaught exception) it has
\* opened exactly one connection and closed it exactly once.
C5_OneOpenOneClose ==
    \A c \in Calls :
        /\ conn[c].opens <= 1
        /\ conn[c].closes <= conn[c].opens
        /\ (pc[c] = "return" \/ Ended(c)) => Closed(c)

C5_Witness ==
    \E c, d \in Calls :
        /\ pc[c] = "propagated" /\ inflight[c] = "OtherError" /\ Closed(c)
        /\ pc[d] = "returned" /\ logged[d] = 1 /\ Closed(d)

(***************************************************************************)
(* C6                                                                      *)
(***************************************************************************)
\* C6 as stated: when an invocation has returned, each of the six
\* identifiers (ability scores) or the list endpoint (backgrounds) has been
\* attempted exactly once.
C6_EachAttemptedOnce ==
    \A c \in Calls :
        pc[c] = "returned" =>
            /\ IsAbility(c) => \A n \in AllNames : attempts[c][n] = 1
            /\ IsBackground(c) => attempts[c][BackgroundsEndpoint] = 1

\* C6 amended: no endpoint is ever attempted more than once.  When
\* get_ability_score_models has ended, the attempted identifiers are those
\* up to and including the first one whose call raised, or all six when no
\* call raised.  When get_background_models has ended, the list call was
\* attempted exactly once and nothing else.
C6_AttemptedUpToFirstFailure ==
    \A c \in Calls :
        /\ \A e \in Endpoints : attempts[c][e] <= 1
        /\ (IsAbility(c) /\ Ended(c)) =>
              \E k \in 1..6 :
                  /\ Attempted(c) = Prefix(k)
                  /\ failed[c] # {} => failed[c] = {NameList[k]}
                  /\ pc[c] = "propagated" => inflight[c] = "OtherError"
                  /\ (failed[c] = {} /\ pc[c] = "returned") => k = 6
        /\ (IsBackground(c) /\ Ended(c)) => Attempted(c) = {BackgroundsEndpoint}

C6_Witness ==
    \E c, d \in Calls :
        /\ IsAbility(c) /\ pc[c] = "returned" /\ failed[c] = {"dex"}
        /\ Attempted(c) = {"str", "dex"}
        /\ IsBackground(d) /\ Ended(d) /\ attempts[d][BackgroundsEndpoint] = 1

(***************************************************************************)
(* C7                                                                      *)
(***************************************************************************)
\* C7: when the list call of get_background_models has answered, the keys
\* of the mapping are exactly the index fields of the summaries of the
\* results, and the value under a key is the to_dict conversion of the
\* summary with that index (the last one, should an index occur twice).
C7_KeyedByIndex ==
    \A c \in Calls :
        (IsBackground(c) /\ response[c].kind = "list") =>
            LET rs == response[c].results IN
            /\ Keys(c) = {rs[k][2] : k \in 1..Len(rs)}
            /\ \A k \in 1..Len(rs) :
                  (\A j \in (k + 1)..Len(rs) : rs[j][2] # rs[k][2]) =>
                      result[c][rs[k][2]] = to_dict(rs[k])

C7_Witness ==
    \E c \in Calls :
        /\ IsBackground(c) /\ pc[c] = "returned"
        /\ response[c].kind = "list"
        /\ Len(response[c].results) = 2
        /\ response[c].results[1][2] = "acolyte"
        /\ response[c].results[2][2] = "sage"
        /\ Keys(c) = {"acolyte", "sage"}

(***************************************************************************)
(* C8                                                                      *)
(***************************************************************************)
\* an invocation starts from an empty mapping, and every entry of its
\* mapping was converted from a response to one of its own calls
C8_OwnEntriesOnly ==
    \A c \in Calls :
        /\ pc[c] \in {"idle", "enter"} => result[c] = EmptyDict
        /\ \A k \in Keys(c) : result[c][k].call = c

\* a step changes an invocation's mapping only if it is a step of that
\* invocation, and never after the invocation has returned
C8_Frame ==
    \A c \in Calls :
        /\ result'[c] # result[c] => pc[c] = "fetch"
        /\ pc[c] = "returned" => (result'[c] = result[c] /\ pc'[c] = "returned")

\* C8: invocations are independent: each builds its own mapping from
\* empty, holds no entry produced by another invocation, and the mapping an
\* invocation returned is not changed by what other invocations do.
C8_IndependentResults == []C8_OwnEntriesOnly /\ [][C8_Frame]_vars

C8_Witness ==
    \E c, d \in Calls :
        /\ c # d
        /\ IsAbility(c) /\ IsAbility(d)
        /\ pc[c] = "returned" /\ pc[d] = "returned"
        /\ Keys(c) = AllNames
        /\ Keys(d) = {"str"}

(***************************************************************************)
(* C9                                                                      *)
(***************************************************************************)
\* C9: at every point of get_ability_score_models the keys of the mapping
\* are a prefix of (str, dex, con, int, wis, cha).
C9_KeysArePrefix ==
    \A c \in Calls :
        IsAbility(c) => \E k \in 0..6 : Keys(c) = Prefix(k)

C9_Witness ==
    \E c \in Calls :
        /\ IsAbility(c) /\ pc[c] = "returned"
        /\ logged[c] = 1
        /\ Keys(c) = {"str", "dex", "con", "int"}

(***************************************************************************)
(* C10                                                                     *)
(***************************************************************************)
\* the connection is open wherever a call can be made, and closed once the
\* action is about to return or has returned
C10_OpenWhileFetching ==
    \A c \in Calls :
        /\ pc[c] \in {"fetch", "except"} => IsOpen(conn[c])
        /\ pc[c] \in {"return", "returned"} => Closed(c)

\* an endpoint call is made on an open connection that stays open
C10_CallsOnOpenConnection ==
    \A c \in Calls :
        attempts'[c] # attempts[c] => (IsOpen(conn[c]) /\ IsOpen(conn'[c]))

\* C10: every endpoint call happens between the opening and the closing of
\* the invocation's connection, and the mapping is returned only after the
\* connection has been closed.
C10_CallsInsideScope == []C10_OpenWhileFetching /\ [][C10_CallsOnOpenConnection]_vars

C10_Witness ==
    \E c, d \in Calls :
        /\ IsAbility(c) /\ pc[c] = "returned" /\ Attempted(c) = AllNames /\ Closed(c)
        /\ IsBackground(d) /\ pc[d] = "returned" /\ Keys(d) # {} /\ Closed(d)
====
